---- MODULE Spec2Model ----
(***************************************************************************)
(* Model of the Bedrock UDP scanner core of src/Scanner.py (the same core  *)
(* is repeated in src/ScannerV2.py and src/scannerV1.py): the request      *)
(* handler scan_server, the fan-out scan_ports over a thread pool, the     *)
(* per-port probe check_bedrock_port, the status decoder get_server_info   *)
(* with safe_decode, and the result composition format_results.            *)
(*                                                                         *)
(* Bytes are numbers 0..255, byte strings are sequences of bytes, text is  *)
(* a sequence of code points.                                              *)
(***************************************************************************)
EXTENDS Integers, Sequences, FiniteSets, TLC

\* ---------------------------------------------------------------- bounds
\* Number of candidate ports the model ranges over (the program scans 501).
MaxPorts == 3
\* Size of the thread pool in the model (stands for MAX_WORKERS = 100).
MAX_WORKERS == 2
\* Largest reading of the wall clock.
MaxClock == 2
\* Longest text token drawn for a payload field of the decoder input.
MaxTokenLen == 1

\* ------------------------------------------------------ program constants
PortBase == 19130
PONG_ID == 28
HEADER_LEN == 33
MIN_FIELDS == 10
SEMICOLON == 59
MAX_SHOWN == 10
\* SCAN_TIMEOUT = 1.5 s, counted in half seconds
SCAN_TIMEOUT == 3

Ports == PortBase .. (PortBase + MaxPorts - 1)

\* Hosts a user may send; is_valid_host accepts those the resolver knows.
Hosts == {"mc.example.com", "no-such-host"}
Resolvable == {"mc.example.com", "play.example.org"}

None == [kind |-> "None"]

VARIABLES
    host,          \* the text of the request
    PORT_RANGE,    \* <<low, high>>, the configured range
    pc,            \* position of the request handler scan_server
    now,           \* time.time()
    start_time,    \* scan_server: start_time
    scan_time,     \* scan_server: scan_time
    probe,         \* per port: "none" | "queued" | "waiting" | "done"
    io,            \* per port: what the probe's socket calls did
    future,        \* per port: the executor future of its probe
    completed,     \* ports in the order their futures completed
    collected,     \* ports whose future the as_completed loop has consumed
    active_ports,  \* scan_ports: active_ports
    info,          \* the get_server_info call of the request
    server_info,   \* scan_server: server_info
    result,        \* what format_results was given / produced
    dec_in,        \* decoder harness: the input of one get_server_info call
    dec_out,       \* decoder harness: what that call did
    net,           \* the environment: how the remote ports and the clock behave
    sockets,       \* ports whose probe holds an open socket
    tally,         \* counts: probes run, results yielded and consumed, info calls
    deadline,      \* per port: when the recv of its probe times out
    other,         \* the state of a second request while this one runs
    rid            \* which request the request variables hold

vars == <<host, PORT_RANGE, pc, now, start_time, scan_time, probe, io, future,
          completed, collected, active_ports, info, server_info, result,
          dec_in, dec_out, net, sockets, tally, deadline, other, rid>>

scanVarsButPc == <<host, PORT_RANGE, now, start_time, scan_time, probe, io,
                   future, completed, collected, active_ports, info,
                   server_info, result, net, sockets, tally, deadline, other,
                   rid>>

\* ------------------------------------------------------------ byte helpers
Low == PORT_RANGE[1]
High == PORT_RANGE[2]
\* the range without the + 1
ports_to_scan_Exclusive == Low .. (High - 1)

\* range(PORT_RANGE[0], PORT_RANGE[1] + 1)
ports_to_scan == Low .. High

Min(S) == CHOOSE x \in S : \A y \in S : x <= y

\* data[n:] of Python
SliceFrom(data, n) == SubSeq(data, n + 1, Len(data))
\* data[:n] of Python
SliceTo(s, n) == SubSeq(s, 1, IF Len(s) < n THEN Len(s) ELSE n)

RECURSIVE Split(_, _)
\* bytes.split(sep) for a one-byte separator: k separators give k+1 pieces
Split(bs, sep) ==
    IF \A i \in 1..Len(bs) : bs[i] # sep
    THEN <<bs>>
    ELSE LET i == Min({j \in 1..Len(bs) : bs[j] = sep})
         IN <<SubSeq(bs, 1, i - 1)>> \o Split(SubSeq(bs, i + 1, Len(bs)), sep)

IsCont(b) == b >= 128 /\ b <= 191

RECURSIVE Utf8Decode(_)
\* bytes.decode('utf-8'), strict: [ok, text]
Utf8Decode(bs) ==
    IF bs = <<>> THEN [ok |-> TRUE, text |-> <<>>]
    ELSE
    LET b0 == bs[1]
        n == Len(bs)
        need == IF b0 < 128 THEN 1
                ELSE IF b0 >= 194 /\ b0 <= 223 THEN 2
                ELSE IF b0 >= 224 /\ b0 <= 239 THEN 3
                ELSE IF b0 >= 240 /\ b0 <= 244 THEN 4
                ELSE 0
        lo2 == IF b0 = 224 THEN 160 ELSE IF b0 = 240 THEN 144 ELSE 128
        hi2 == IF b0 = 237 THEN 159 ELSE IF b0 = 244 THEN 143 ELSE 191
        wellFormed ==
            /\ need > 0
            /\ n >= need
            /\ need >= 2 => (bs[2] >= lo2 /\ bs[2] <= hi2)
            /\ need >= 3 => IsCont(bs[3])
            /\ need >= 4 => IsCont(bs[4])
        cp == IF need = 1 THEN b0
              ELSE IF need = 2 THEN (b0 - 192) * 64 + (bs[2] - 128)
              ELSE IF need = 3
                   THEN (b0 - 224) * 4096 + (bs[2] - 128) * 64 + (bs[3] - 128)
              ELSE (b0 - 240) * 262144 + (bs[2] - 128) * 4096
                   + (bs[3] - 128) * 64 + (bs[4] - 128)
    IN IF ~wellFormed THEN [ok |-> FALSE, text |-> <<>>]
       ELSE LET rest == Utf8Decode(SubSeq(bs, need + 1, n))
            IN IF rest.ok THEN [ok |-> TRUE, text |-> <<cp>> \o rest.text]
               ELSE rest

\* bytes.decode('latin-1', errors='ignore'): every byte is its own code point
Latin1Decode(bs) == bs

\* the decoder without its except branch: undecodable bytes give ''
safe_decode_Utf8Only(byte_str) == Utf8Decode(byte_str).text

safe_decode(byte_str) ==
    LET u == Utf8Decode(byte_str)
    IN IF u.ok THEN u.text ELSE Latin1Decode(byte_str)

\* --------------------------------------------------------------- the probe
\* What the socket calls of one probe can do.  recv is a timeout, a refusal
\* (ICMP port unreachable) or a datagram.
NoRecv == [kind |-> "none", data |-> <<>>]
ProbeReplies == {<<>>, <<PONG_ID>>, <<0, PONG_ID>>}
RecvOutcomes ==
    {[kind |-> "timeout", data |-> <<>>], [kind |-> "refused", data |-> <<>>]}
    \cup {[kind |-> "data", data |-> d] : d \in ProbeReplies}
\* socket() and settimeout()/sendto() either work or raise
StartOutcomes ==
    {[sock |-> TRUE, send |-> TRUE], [sock |-> TRUE, send |-> FALSE],
     [sock |-> FALSE, send |-> FALSE]}
NoIO == [sock |-> FALSE, send |-> FALSE, recv |-> NoRecv]

\* the test without the comparison of the first byte
IsPong_AnyReply(data) == Len(data) > 0

\* the test of the reply, line 133
IsPong(data) == Len(data) > 0 /\ data[1] = PONG_ID

\* check_bedrock_port(host, port), given what its socket calls do: the value
\* it returns, or the exception that leaves it.  The finally clause closes
\* sock, a local that is bound only once socket.socket() has returned.
check_bedrock_port(port, o) ==
    LET bound == o.sock
        got == o.sock /\ o.send /\ o.recv.kind = "data"
        is_active == got /\ IsPong(o.recv.data)
    IN IF ~bound
       THEN [kind |-> "raise", exc |-> "UnboundLocalError", value |-> <<port, FALSE>>]
       ELSE [kind |-> "return", exc |-> "", value |-> <<port, is_active>>]

Pending == [kind |-> "pending", exc |-> "", value |-> <<0, FALSE>>]

\* ------------------------------------------------------------ the decoder
InfoFields == <<"edition", "motd", "protocol", "version", "players",
                "max_players", "server_id", "server_name", "gamemode">>

\* the dictionary with every index one too far
MakeInfo_Shifted(segs, port) ==
    [kind |-> "info",
     edition |-> safe_decode(segs[2]),
     motd |-> safe_decode(segs[3]),
     protocol |-> safe_decode(segs[4]),
     version |-> safe_decode(segs[5]),
     players |-> safe_decode(segs[6]),
     max_players |-> safe_decode(segs[7]),
     server_id |-> safe_decode(segs[8]),
     server_name |-> safe_decode(segs[9]),
     gamemode |-> safe_decode(segs[10]),
     port |-> port]

\* the dictionary built at lines 163-174
MakeInfo(segs, port) ==
    [kind |-> "info",
     edition |-> safe_decode(segs[1]),
     motd |-> safe_decode(segs[2]),
     protocol |-> safe_decode(segs[3]),
     version |-> safe_decode(segs[4]),
     players |-> safe_decode(segs[5]),
     max_players |-> safe_decode(segs[6]),
     server_id |-> safe_decode(segs[7]),
     server_name |-> safe_decode(segs[8]),
     gamemode |-> safe_decode(segs[9]),
     port |-> port]

\* the parse with the segment count off by one
ParseInfo_OffByOne(data, port) ==
    IF data = <<>> THEN None
    ELSE IF data[1] # PONG_ID THEN None
    ELSE LET segs == Split(SliceFrom(data, HEADER_LEN), SEMICOLON)
         IN IF Len(segs) < MIN_FIELDS - 1 THEN None ELSE MakeInfo(segs, port)

\* lines 156-174: the parse of a received datagram; data[0] of an empty
\* datagram raises IndexError, which the bare except turns into None
ParseInfo(data, port) ==
    IF data = <<>> THEN None
    ELSE IF data[1] # PONG_ID THEN None
    ELSE LET segs == Split(SliceFrom(data, HEADER_LEN), SEMICOLON)
         IN IF Len(segs) < MIN_FIELDS THEN None ELSE MakeInfo(segs, port)

\* get_server_info(host, port), given what its socket calls do
get_server_info(port, o) ==
    IF ~o.sock
    THEN [kind |-> "raise", exc |-> "UnboundLocalError", value |-> None]
    ELSE IF ~o.send \/ o.recv.kind # "data"
    THEN [kind |-> "return", exc |-> "", value |-> None]
    ELSE [kind |-> "return", exc |-> "", value |-> ParseInfo(o.recv.data, port)]

\* ------------------------------------------------------- the request
\* the check that accepts every host
is_valid_host_Always(h) == TRUE

\* is_valid_host(host): socket.getaddrinfo succeeds
is_valid_host(h) == h \in Resolvable

\* the subtraction the wrong way round
Elapsed_Swapped(start, end) == start - end

\* scan_time = time.time() - start_time
Elapsed(start, end) == end - start

\* the last open port found instead of the first
InfoPort_Last(ports) == ports[Len(ports)]

\* the port handed to get_server_info: active_ports[0]
InfoPort(ports) == ports[1]

\* the append without the test of is_active
Collected_Always(ports, value) == Append(ports, value[1])

\* active_ports.append(port) when is_active
Collected(ports, value) ==
    IF value[2] THEN Append(ports, value[1]) ELSE ports

\* format_results(host, active_ports, server_info, scan_time): what the message
\* shows.  At most MAX_SHOWN ports are listed, the rest are counted; the
\* server block is printed only with ports and a truthy server_info.
format_results(h, ports, sinfo, t) ==
    [kind |-> "result",
     host |-> h,
     active_ports |-> ports,
     ports_str |-> SliceTo(ports, MAX_SHOWN),
     others |-> IF Len(ports) > MAX_SHOWN THEN Len(ports) - MAX_SHOWN ELSE 0,
     server_info |-> IF ports # <<>> THEN sinfo ELSE None,
     scan_time |-> t]

NoInfoCall == [called |-> FALSE, port |-> 0, t_start |-> 0, t_end |-> 0,
               sock_open |-> FALSE, o |-> NoIO]

\* replies the status port may send to get_server_info
Header == [i \in 1..HEADER_LEN |-> IF i = 1 THEN PONG_ID ELSE 0]
Payload(k) == [i \in 1..k |-> SEMICOLON]
InfoReplies ==
    {<<>>, <<0>>, <<PONG_ID>>,
     Header \o Payload(MIN_FIELDS - 2),
     Header \o Payload(MIN_FIELDS - 1),
     Header \o <<77>> \o Payload(MIN_FIELDS + 3)}
InfoRecvOutcomes ==
    {[kind |-> "timeout", data |-> <<>>]}
    \cup {[kind |-> "data", data |-> d] : d \in InfoReplies}

\* The environment.  Under "any" every outcome of a socket call may happen
\* and the clock runs freely; the other environments fix what the remote
\* ports answer.
AnyNet == [kind |-> "any", timed |-> FALSE, data |-> <<>>, port |-> 0]
AllOk == [sock |-> TRUE, send |-> TRUE]
PongReply == [kind |-> "data", data |-> <<PONG_ID>>]
TimeoutReply == [kind |-> "timeout", data |-> <<>>]
\* what socket(), settimeout() and sendto() may do for a probe or a status call
StartChoices == IF net.kind = "any" THEN StartOutcomes ELSE {AllOk}
\* what recv may do for the probe of port p
RecvChoices(p) ==
    IF net.kind = "any" THEN RecvOutcomes
    ELSE IF net.kind = "silent" THEN {TimeoutReply}
    ELSE IF net.kind = "scenario"
    THEN (IF p = net.port THEN {[kind |-> "data", data |-> net.data]}
          ELSE {TimeoutReply})
    ELSE (IF p = net.port[host] THEN {PongReply} ELSE {TimeoutReply})
\* what recvfrom may do for the status call
InfoRecvChoices ==
    IF net.kind = "any" THEN InfoRecvOutcomes
    ELSE IF net.kind = "scenario" THEN {[kind |-> "data", data |-> net.data]}
    ELSE {TimeoutReply}

NoTally == [probed |-> [p \in Ports |-> 0], yielded |-> [p \in Ports |-> 0],
            consumed |-> [p \in Ports |-> 0], info_calls |-> 0]
Bump(f, p) == [f EXCEPT ![p] = @ + 1]

\* the close written after recv in the try body instead of in finally
finally_close_OnReplyOnly(socks, p, o) ==
    IF o.sock /\ o.send /\ o.recv.kind = "data" THEN socks \ {p} ELSE socks

\* finally: sock.close() (lines 138-139), given what the socket calls did;
\* with sock unbound nothing was opened and nothing is closed
finally_close(socks, p, o) == IF o.sock THEN socks \ {p} ELSE socks

Queued == {p \in ports_to_scan : probe[p] = "queued"}
Waiting == {p \in ports_to_scan : probe[p] = "waiting"}
\* a pool that starts a thread per submitted work item
Dequeued_Unbounded == Queued

\* a pool of one worker
Dequeued_OneWorker == {p \in Queued : Waiting = {} /\ \A q \in Queued : p <= q}

\* the work items idle workers have taken off the executor's FIFO queue
Dequeued ==
    {p \in Queued :
        Cardinality({q \in Queued : q < p}) < MAX_WORKERS - Cardinality(Waiting)}

Init ==
    /\ host \in Hosts
    /\ PORT_RANGE \in {r \in Ports \X Ports : r[1] <= r[2]}
    /\ pc = "received"
    /\ now = 0
    /\ start_time = 0
    /\ scan_time = 0
    /\ probe = [p \in Ports |-> "none"]
    /\ io = [p \in Ports |-> NoIO]
    /\ future = [p \in Ports |-> Pending]
    /\ completed = <<>>
    /\ collected = {}
    /\ active_ports = <<>>
    /\ info = NoInfoCall
    /\ server_info = None
    /\ result = None
    /\ dec_in = None
    /\ dec_out = None
    /\ net = AnyNet
    /\ sockets = {}
    /\ tally = NoTally
    /\ deadline = [p \in Ports |-> 0]
    /\ other = None
    /\ rid = 1

\* scan_server, lines 48-53: the resolvability check
ValidateHost ==
    /\ pc = "received"
    /\ pc' = IF is_valid_host(host) THEN "accepted" ELSE "rejected"
    /\ UNCHANGED <<host, PORT_RANGE, now, start_time, scan_time, probe, io,
                   future, completed, collected, active_ports, info,
                   server_info, result, dec_in, dec_out,
                   net, sockets, tally, deadline, other, rid>>

\* scan_server line 63 and scan_ports lines 93-106: the clock is read and one
\* future per port is submitted to the executor
StartScan ==
    /\ pc = "accepted"
    /\ start_time' = now
    /\ probe' = [p \in Ports |-> IF p \in ports_to_scan THEN "queued" ELSE "none"]
    /\ pc' = "scanning"
    /\ UNCHANGED <<host, PORT_RANGE, now, scan_time, io, future, completed,
                   collected, active_ports, info, server_info, result,
                   dec_in, dec_out,
                   net, sockets, tally, deadline, other, rid>>

\* a worker runs check_bedrock_port up to sendto (lines 117-129)
ProbeStart(p) ==
    /\ pc \in {"scanning", "unwinding", "cancelling"}
    /\ p \in Dequeued
    /\ \E s \in StartChoices :
        LET o == [sock |-> s.sock, send |-> s.send, recv |-> NoRecv]
            opened == IF s.sock THEN sockets \cup {p} ELSE sockets
        IN /\ io' = [io EXCEPT ![p] = o]
           /\ IF s.sock /\ s.send
              THEN /\ probe' = [probe EXCEPT ![p] = "waiting"]
                   /\ sockets' = opened
                   /\ tally' = [tally EXCEPT !.probed = Bump(@, p)]
                   /\ UNCHANGED <<future, completed>>
              ELSE /\ probe' = [probe EXCEPT ![p] = "done"]
                   /\ sockets' = finally_close(opened, p, o)
                   /\ tally' = [tally EXCEPT !.probed = Bump(@, p),
                                             !.yielded = Bump(@, p)]
                   /\ future' = [future EXCEPT ![p] = check_bedrock_port(p, o)]
                   /\ completed' = Append(completed, p)
    /\ deadline' = IF net.timed
                   THEN [deadline EXCEPT ![p] = now + SCAN_TIMEOUT]
                   ELSE deadline
    /\ UNCHANGED <<host, PORT_RANGE, pc, now, start_time, scan_time, collected,
                   active_ports, info, server_info, result, dec_in, dec_out,
                   net, other, rid>>

\* recv returns or raises, the reply is inspected, the socket is closed and
\* the future completes (lines 130-141)
ProbeFinish(p) ==
    /\ probe[p] = "waiting"
    /\ \E r \in RecvChoices(p) :
        LET o == [io[p] EXCEPT !.recv = r]
        IN /\ net.timed /\ r.kind = "timeout" => now = deadline[p]
           /\ io' = [io EXCEPT ![p] = o]
           /\ future' = [future EXCEPT ![p] = check_bedrock_port(p, o)]
           /\ sockets' = finally_close(sockets, p, o)
    /\ probe' = [probe EXCEPT ![p] = "done"]
    /\ completed' = Append(completed, p)
    /\ tally' = [tally EXCEPT !.yielded = Bump(@, p)]
    /\ UNCHANGED <<host, PORT_RANGE, pc, now, start_time, scan_time, collected,
                   active_ports, info, server_info, result, dec_in, dec_out,
                   net, deadline, other, rid>>

\* one turn of the as_completed loop (lines 108-111); an exception of the
\* awaited future leaves the loop and the with block
Collect ==
    /\ pc = "scanning"
    /\ completed # <<>>
    /\ LET p == Head(completed)
           f == future[p]
       IN /\ completed' = Tail(completed)
          /\ collected' = collected \cup {p}
          /\ tally' = [tally EXCEPT !.consumed = Bump(@, p)]
          /\ IF f.kind = "raise"
             THEN /\ pc' = "unwinding"
                  /\ UNCHANGED active_ports
             ELSE /\ pc' = pc
                  /\ active_ports' = Collected(active_ports, f.value)
    /\ UNCHANGED <<host, PORT_RANGE, now, start_time, scan_time, probe, io,
                   future, info, server_info, result, dec_in, dec_out,
                   net, sockets, deadline, other, rid>>

\* scan_ports leaving its loop at the first open port, without waiting for
\* the pool
ScanPortsReturn_FirstHit ==
    /\ pc = "scanning"
    /\ collected = ports_to_scan \/ active_ports # <<>>
    /\ scan_time' = Elapsed(start_time, now)
    /\ pc' = "scanned"
    /\ UNCHANGED <<host, PORT_RANGE, now, start_time, probe, io, future,
                   completed, collected, active_ports, info, server_info,
                   result, dec_in, dec_out,
                   net, sockets, tally, deadline, other, rid>>

\* the loop is exhausted, the executor shuts down, scan_ports returns and
\* scan_server reads the clock (lines 113 and 65)
ScanPortsReturn ==
    /\ pc = "scanning"
    /\ collected = ports_to_scan
    /\ scan_time' = Elapsed(start_time, now)
    /\ pc' = "scanned"
    /\ UNCHANGED <<host, PORT_RANGE, now, start_time, probe, io, future,
                   completed, collected, active_ports, info, server_info,
                   result, dec_in, dec_out,
                   net, sockets, tally, deadline, other, rid>>

\* the with block's exit on an exception: shutdown(wait=True) lets every
\* submitted probe run to its end, then the exception leaves scan_ports and
\* scan_server
Unwind ==
    /\ pc \in {"unwinding", "cancelling"}
    /\ \A p \in ports_to_scan : probe[p] = "done"
    /\ pc' = IF pc = "unwinding" THEN "error" ELSE "cancelled"
    /\ UNCHANGED <<host, PORT_RANGE, now, start_time, scan_time, probe, io,
                   future, completed, collected, active_ports, info,
                   server_info, result, dec_in, dec_out,
                   net, sockets, tally, deadline, other, rid>>

\* the request's task is cancelled while it awaits a future (line 109):
\* CancelledError leaves the loop and the with block like any exception
Cancel ==
    /\ net.kind = "any"
    /\ pc = "scanning"
    /\ pc' = "cancelling"
    /\ UNCHANGED <<host, PORT_RANGE, now, start_time, scan_time, probe, io,
                   future, completed, collected, active_ports, info,
                   server_info, result, dec_in, dec_out,
                   net, sockets, tally, deadline, other, rid>>

\* scan_server lines 69-70 and get_server_info up to sendto (lines 145-153)
InfoStart ==
    /\ pc = "scanned"
    /\ active_ports # <<>>
    /\ \E s \in StartChoices :
        LET o == [sock |-> s.sock, send |-> s.send, recv |-> NoRecv]
            port == InfoPort(active_ports)
            r == get_server_info(port, o)
            call == [called |-> TRUE, port |-> port, t_start |-> now,
                     t_end |-> now, sock_open |-> s.sock /\ s.send, o |-> o]
        IN /\ info' = call
           /\ IF s.sock /\ s.send
              THEN pc' = "info_wait" /\ UNCHANGED server_info
              ELSE IF r.kind = "raise"
              THEN pc' = "error" /\ UNCHANGED server_info
              ELSE pc' = "info_done" /\ server_info' = r.value
    /\ tally' = [tally EXCEPT !.info_calls = @ + 1]
    /\ UNCHANGED <<host, PORT_RANGE, now, start_time, scan_time, probe, io,
                   future, completed, collected, active_ports, result,
                   dec_in, dec_out,
                   net, sockets, deadline, other, rid>>

\* recvfrom returns or times out, the reply is parsed, the socket is closed
\* (lines 154-179)
InfoFinish ==
    /\ pc = "info_wait"
    /\ \E r \in InfoRecvChoices :
        LET o == [info.o EXCEPT !.recv = r]
        IN /\ info' = [info EXCEPT !.o = o, !.t_end = now, !.sock_open = FALSE]
           /\ server_info' = get_server_info(info.port, o).value
    /\ pc' = "info_done"
    /\ UNCHANGED <<host, PORT_RANGE, now, start_time, scan_time, probe, io,
                   future, completed, collected, active_ports, result,
                   dec_in, dec_out,
                   net, sockets, tally, deadline, other, rid>>

\* the composition with the clock read only now, after the decoder
Compose_ClockReadLate ==
    /\ \/ pc = "scanned" /\ active_ports = <<>>
       \/ pc = "info_done"
    /\ result' = format_results(host, active_ports, server_info,
                                Elapsed(start_time, now))
    /\ pc' = "done"
    /\ UNCHANGED <<host, PORT_RANGE, now, start_time, scan_time, probe, io,
                   future, completed, collected, active_ports, info,
                   server_info, dec_in, dec_out,
                   net, sockets, tally, deadline, other, rid>>

\* scan_server line 73: the result is composed
Compose ==
    /\ \/ pc = "scanned" /\ active_ports = <<>>
       \/ pc = "info_done"
    /\ result' = format_results(host, active_ports, server_info, scan_time)
    /\ pc' = "done"
    /\ UNCHANGED <<host, PORT_RANGE, now, start_time, scan_time, probe, io,
                   future, completed, collected, active_ports, info,
                   server_info, dec_in, dec_out,
                   net, sockets, tally, deadline, other, rid>>

\* time passes while a thread waits in recv
Tick ==
    /\ IF net.timed
       THEN \* a timeout fires at its deadline and an idle worker starts the
            \* next probe at once: time passes only while every worker waits
            \* or while the first reply is sent, before the scan begins
            \/ /\ Waiting # {}
               /\ \A p \in Waiting : now < deadline[p]
               /\ Dequeued = {}
            \/ pc = "accepted" /\ now < MaxClock
       ELSE /\ now < MaxClock
            /\ Waiting # {} \/ pc = "info_wait"
    /\ now' = now + 1
    /\ UNCHANGED <<host, PORT_RANGE, pc, start_time, scan_time, probe, io,
                   future, completed, collected, active_ports, info,
                   server_info, result, dec_in, dec_out,
                   net, sockets, tally, deadline, other, rid>>

Next ==
    \/ ValidateHost
    \/ StartScan
    \/ \E p \in Ports : ProbeStart(p)
    \/ \E p \in Ports : ProbeFinish(p)
    \/ Collect
    \/ ScanPortsReturn
    \/ Unwind
    \/ Cancel
    \/ InfoStart
    \/ InfoFinish
    \/ Compose
    \/ Tick

Spec == Init /\ [][Next]_vars

\* ------------------------------------------------- the request, scheduled
\* The request left to itself (nobody cancels it) on a fair scheduler: a
\* pool thread that can run does run, recv returns or raises after its
\* timeout at the latest, and the event loop resumes a coroutine whose
\* awaited future is done.
NextLive ==
    \/ ValidateHost
    \/ StartScan
    \/ \E p \in Ports : ProbeStart(p)
    \/ \E p \in Ports : ProbeFinish(p)
    \/ Collect
    \/ ScanPortsReturn
    \/ Unwind
    \/ InfoStart
    \/ InfoFinish
    \/ Compose
    \/ Tick

Fairness ==
    /\ WF_vars(ValidateHost)
    /\ WF_vars(StartScan)
    /\ \A p \in Ports : WF_vars(ProbeStart(p)) /\ WF_vars(ProbeFinish(p))
    /\ WF_vars(Collect)
    /\ WF_vars(ScanPortsReturn)
    /\ WF_vars(Unwind)
    /\ WF_vars(InfoStart)
    /\ WF_vars(InfoFinish)
    /\ WF_vars(Compose)

SpecLive == Init /\ [][NextLive]_vars /\ Fairness

\* --------------------------------------------------- the decoder alone
\* One call of get_server_info on a drawn input: a status port that sends a
\* header and the ';'-joined UTF-8 encoding of drawn text tokens, or a
\* datagram that is cut short, or socket calls that fail.

RECURSIVE Utf8Encode(_)
\* str.encode('utf-8'), what a server does with its text
Utf8Encode(text) ==
    IF text = <<>> THEN <<>>
    ELSE LET c == text[1]
             head == IF c < 128 THEN <<c>>
                     ELSE IF c < 2048 THEN <<192 + (c \div 64), 128 + (c % 64)>>
                     ELSE IF c < 65536
                          THEN <<224 + (c \div 4096), 128 + ((c \div 64) % 64),
                                 128 + (c % 64)>>
                     ELSE <<240 + (c \div 262144), 128 + ((c \div 4096) % 64),
                            128 + ((c \div 64) % 64), 128 + (c % 64)>>
         IN head \o Utf8Encode(Tail(text))

RECURSIVE Join(_, _)
\* b';'.join(tokens)
Join(tokens, sep) ==
    IF tokens = <<>> THEN <<>>
    ELSE IF Len(tokens) = 1 THEN tokens[1]
    ELSE tokens[1] \o <<sep>> \o Join(Tail(tokens), sep)

\* letters of the drawn words: 'A', e acute (2 bytes), the euro sign (3 bytes)
Letters == {65, 233, 8364}
RECURSIVE WordsUpTo(_)
WordsUpTo(n) ==
    IF n = 0 THEN {<<>>}
    ELSE LET W == WordsUpTo(n - 1)
         IN W \cup {Append(w, c) : w \in W, c \in Letters}
Words == WordsUpTo(MaxTokenLen)

TokenCounts == (MIN_FIELDS - 2) .. (MIN_FIELDS + 1)
\* token i is the letter 'a'+i, except token k, which is the drawn word
TokensOf(n, k, w) == [i \in 1..n |-> IF i = k THEN w ELSE <<96 + i>>]
EncodeAll(tokens) == [i \in 1..Len(tokens) |-> Utf8Encode(tokens[i])]

HeaderOf(lead) == [i \in 1..HEADER_LEN |-> IF i = 1 THEN lead ELSE 255]

StatusReply(lead, tokens, trailing) ==
    HeaderOf(lead) \o Join(EncodeAll(tokens), SEMICOLON)
    \o (IF trailing THEN <<SEMICOLON>> ELSE <<>>)

DecPorts == {PortBase, PortBase + 1}

\* well-formed status replies, with the tokens they carry
DecReplies ==
    {[port |-> q, shape |-> "status", lead |-> l, tokens |-> TokensOf(n, k, w),
      trailing |-> t,
      o |-> [sock |-> TRUE, send |-> TRUE,
             recv |-> [kind |-> "data",
                       data |-> StatusReply(l, TokensOf(n, k, w), t)]]] :
        q \in DecPorts, l \in {PONG_ID, 0}, n \in TokenCounts,
        k \in 1..(MIN_FIELDS + 1), w \in Words, t \in BOOLEAN}

\* datagrams cut short, and socket calls that raise
DecFailures ==
    {[port |-> q, shape |-> "short", lead |-> PONG_ID, tokens |-> <<>>,
      trailing |-> FALSE,
      o |-> [sock |-> TRUE, send |-> TRUE, recv |-> [kind |-> "data", data |-> d]]] :
        q \in DecPorts,
        d \in {<<>>, <<PONG_ID>>, SubSeq(HeaderOf(PONG_ID), 1, HEADER_LEN - 1),
               HeaderOf(PONG_ID)}}
    \cup
    {[port |-> q, shape |-> "failure", lead |-> PONG_ID, tokens |-> <<>>,
      trailing |-> FALSE, o |-> f] :
        q \in DecPorts,
        f \in {[sock |-> FALSE, send |-> FALSE, recv |-> NoRecv],
               [sock |-> TRUE, send |-> FALSE, recv |-> NoRecv],
               [sock |-> TRUE, send |-> TRUE,
                recv |-> [kind |-> "timeout", data |-> <<>>]]}}

\* bytes of the drawn raw tokens: 'A', the two bytes of e acute, and 0xFF
RawBytes == {65, 195, 169, 255}
RECURSIVE RawUpTo(_)
RawUpTo(n) ==
    IF n = 0 THEN {<<>>}
    ELSE LET W == RawUpTo(n - 1)
         IN W \cup {Append(w, c) : w \in W, c \in RawBytes}
RawTokens == RawUpTo(MaxTokenLen + 1) \ {<<>>}

\* status replies of exactly MIN_FIELDS segments whose token k is sent as
\* arbitrary bytes, valid UTF-8 or not
DecRaw ==
    {[port |-> q, shape |-> "raw", lead |-> PONG_ID, tokens |-> TokensOf(MIN_FIELDS, k, w),
      trailing |-> FALSE,
      o |-> [sock |-> TRUE, send |-> TRUE,
             recv |-> [kind |-> "data",
                       data |-> HeaderOf(PONG_ID)
                                \o Join(TokensOf(MIN_FIELDS, k, w), SEMICOLON)]]] :
        q \in DecPorts, k \in 1..(MIN_FIELDS - 1), w \in RawTokens}

DecInputs == DecReplies \cup DecFailures \cup DecRaw

InitDecode ==
    /\ host = "mc.example.com"
    /\ PORT_RANGE = <<PortBase, PortBase>>
    /\ pc = "decoder"
    /\ now = 0
    /\ start_time = 0
    /\ scan_time = 0
    /\ probe = [p \in Ports |-> "none"]
    /\ io = [p \in Ports |-> NoIO]
    /\ future = [p \in Ports |-> Pending]
    /\ completed = <<>>
    /\ collected = {}
    /\ active_ports = <<>>
    /\ info = NoInfoCall
    /\ server_info = None
    /\ result = None
    /\ dec_in \in DecInputs
    /\ dec_out = None
    /\ net = AnyNet
    /\ sockets = {}
    /\ tally = NoTally
    /\ deadline = [p \in Ports |-> 0]
    /\ other = None
    /\ rid = 1

\* the call get_server_info(host, port)
Decode ==
    /\ pc = "decoder"
    /\ dec_out' = get_server_info(dec_in.port, dec_in.o)
    /\ pc' = "decoded"
    /\ UNCHANGED <<scanVarsButPc, dec_in>>

NextDecode == Decode

SpecDecode == InitDecode /\ [][NextDecode]_vars

\* ------------------------------------------------- one server, one reply
\* A request before scan_server has looked at it.
FreshRequest ==
    /\ pc = "received"
    /\ now = 0
    /\ start_time = 0
    /\ scan_time = 0
    /\ probe = [p \in Ports |-> "none"]
    /\ io = [p \in Ports |-> NoIO]
    /\ future = [p \in Ports |-> Pending]
    /\ completed = <<>>
    /\ collected = {}
    /\ active_ports = <<>>
    /\ info = NoInfoCall
    /\ server_info = None
    /\ result = None
    /\ dec_in = None
    /\ dec_out = None
    /\ sockets = {}
    /\ tally = NoTally
    /\ deadline = [p \in Ports |-> 0]

\* The fields of the status line
\* MCPE;My Server;422;1.19;3;10;GUID1;Survival World;Survival;1;19132;19132;0;
\* as ASCII codes.
ScenarioFields ==
    <<<<77, 67, 80, 69>>,
      <<77, 121, 32, 83, 101, 114, 118, 101, 114>>,
      <<52, 50, 50>>,
      <<49, 46, 49, 57>>,
      <<51>>,
      <<49, 48>>,
      <<71, 85, 73, 68, 49>>,
      <<83, 117, 114, 118, 105, 118, 97, 108, 32, 87, 111, 114, 108, 100>>,
      <<83, 117, 114, 118, 105, 118, 97, 108>>,
      <<49>>,
      <<49, 57, 49, 51, 50>>,
      <<49, 57, 49, 51, 50>>,
      <<48>>>>
ScenarioPort == PortBase + 1

\* 0x1C, 32 header bytes, the first n fields joined by ';', and the
\* trailing ';' or not
ScenarioReply(filler, n, trailing) ==
    [i \in 1..HEADER_LEN |-> IF i = 1 THEN PONG_ID ELSE filler]
    \o Join(SubSeq(ScenarioFields, 1, n), SEMICOLON)
    \o (IF trailing THEN <<SEMICOLON>> ELSE <<>>)

\* only ScenarioPort answers, and with the same datagram to every ping
ScenarioNets ==
    {[kind |-> "scenario", timed |-> FALSE, port |-> ScenarioPort,
      data |-> ScenarioReply(f, n, t)] :
        f \in {0, SEMICOLON}, n \in MIN_FIELDS .. Len(ScenarioFields),
        t \in BOOLEAN}

InitScenario ==
    /\ host = "mc.example.com"
    /\ PORT_RANGE = <<PortBase, PortBase + 2>>
    /\ net \in ScenarioNets
    /\ other = None
    /\ rid = 1
    /\ FreshRequest

NextScenario ==
    \/ ValidateHost
    \/ StartScan
    \/ \E p \in Ports : ProbeStart(p)
    \/ \E p \in Ports : ProbeFinish(p)
    \/ Collect
    \/ ScanPortsReturn
    \/ InfoStart
    \/ InfoFinish
    \/ Compose
    \/ Tick

SpecScenario == InitScenario /\ [][NextScenario]_vars

\* ------------------------------------------------- nobody answers, timed
\* No port answers: every recvfrom raises socket.timeout SCAN_TIMEOUT after
\* its probe started.  Only the waits in recvfrom take time.
SilentNet == [kind |-> "silent", timed |-> TRUE, data |-> <<>>, port |-> 0]

InitTimed ==
    /\ host = "mc.example.com"
    /\ PORT_RANGE \in {r \in Ports \X Ports : r[1] <= r[2]}
    /\ net = SilentNet
    /\ other = None
    /\ rid = 1
    /\ FreshRequest

NextTimed ==
    \/ ValidateHost
    \/ StartScan
    \/ \E p \in Ports : ProbeStart(p)
    \/ \E p \in Ports : ProbeFinish(p)
    \/ Collect
    \/ ScanPortsReturn
    \/ Compose
    \/ Tick

SpecTimed == InitTimed /\ [][NextTimed]_vars

\* ------------------------------------------------- two requests at once
\* Two scan_server coroutines on one event loop, each with its own pool
\* threads.  The variables hold the locals of the request that runs; other
\* holds the locals of the one that is suspended.
Locals ==
    [host |-> host, pc |-> pc, start_time |-> start_time,
     scan_time |-> scan_time, probe |-> probe, io |-> io, future |-> future,
     completed |-> completed, collected |-> collected,
     active_ports |-> active_ports, info |-> info,
     server_info |-> server_info, result |-> result, sockets |-> sockets,
     tally |-> tally, deadline |-> deadline]

FreshLocals(h) ==
    [host |-> h, pc |-> "received", start_time |-> 0, scan_time |-> 0,
     probe |-> [p \in Ports |-> "none"], io |-> [p \in Ports |-> NoIO],
     future |-> [p \in Ports |-> Pending], completed |-> <<>>,
     collected |-> {}, active_ports |-> <<>>, info |-> NoInfoCall,
     server_info |-> None, result |-> None, sockets |-> {},
     tally |-> NoTally, deadline |-> [p \in Ports |-> 0]]

TwoHosts == {"mc.example.com", "play.example.org"}
TwoRange == <<PortBase, PortBase + 1>>

\* each host answers pings on one port of the range
TwoNets ==
    {[kind |-> "two", timed |-> FALSE, data |-> <<>>, port |-> f] :
        f \in [TwoHosts -> TwoRange[1] .. TwoRange[2]]}

InitTwo ==
    /\ host \in TwoHosts
    /\ PORT_RANGE = TwoRange
    /\ net \in TwoNets
    /\ \E h \in TwoHosts : other = FreshLocals(h)
    /\ rid = 1
    /\ FreshRequest

\* a module-level active_ports that both requests append to
Switch_SharedList ==
    /\ other' = Locals
    /\ rid' = 3 - rid
    /\ host' = other.host
    /\ pc' = other.pc
    /\ start_time' = other.start_time
    /\ scan_time' = other.scan_time
    /\ probe' = other.probe
    /\ io' = other.io
    /\ future' = other.future
    /\ completed' = other.completed
    /\ collected' = other.collected
    /\ active_ports' = active_ports
    /\ info' = other.info
    /\ server_info' = other.server_info
    /\ result' = other.result
    /\ sockets' = other.sockets
    /\ tally' = other.tally
    /\ deadline' = other.deadline
    /\ UNCHANGED <<PORT_RANGE, now, dec_in, dec_out, net>>

\* the scheduler turns to the other request: the running one is suspended
\* with all its locals and the suspended one resumes with its own
Switch ==
    /\ other' = Locals
    /\ rid' = 3 - rid
    /\ host' = other.host
    /\ pc' = other.pc
    /\ start_time' = other.start_time
    /\ scan_time' = other.scan_time
    /\ probe' = other.probe
    /\ io' = other.io
    /\ future' = other.future
    /\ completed' = other.completed
    /\ collected' = other.collected
    /\ active_ports' = other.active_ports
    /\ info' = other.info
    /\ server_info' = other.server_info
    /\ result' = other.result
    /\ sockets' = other.sockets
    /\ tally' = other.tally
    /\ deadline' = other.deadline
    /\ UNCHANGED <<PORT_RANGE, now, dec_in, dec_out, net>>

NextTwo ==
    \/ ValidateHost
    \/ StartScan
    \/ \E p \in Ports : ProbeStart(p)
    \/ \E p \in Ports : ProbeFinish(p)
    \/ Collect
    \/ ScanPortsReturn
    \/ InfoStart
    \/ InfoFinish
    \/ Compose
    \/ Switch

SpecTwo == InitTwo /\ [][NextTwo]_vars

\* ------------------------------------------------- the three variants
\* The scanning core as each of the other two files spells it.
\* ScannerV2.py, lines 212-217: safe_decode
safe_decode_V2(byte_str) ==
    LET u == Utf8Decode(byte_str)
    IN IF u.ok THEN u.text ELSE Latin1Decode(byte_str)

\* the V2 probe taking any reply for a pong
check_bedrock_port_V2_AnyReply(port, o) ==
    IF ~o.sock
    THEN [kind |-> "raise", exc |-> "UnboundLocalError", value |-> <<port, FALSE>>]
    ELSE [kind |-> "return", exc |-> "",
          value |-> <<port, o.send /\ o.recv.kind = "data" /\ Len(o.recv.data) > 0>>]

\* ScannerV2.py, lines 148-172: check_bedrock_port; sock is bound inside the try
\* whose finally closes it, the test is len(data) > 0 and data[0] == 0x1c
check_bedrock_port_V2(port, o) ==
    IF ~o.sock
    THEN [kind |-> "raise", exc |-> "UnboundLocalError", value |-> <<port, FALSE>>]
    ELSE IF o.send /\ o.recv.kind = "data" /\ Len(o.recv.data) > 0
            /\ o.recv.data[1] = 28
    THEN [kind |-> "return", exc |-> "", value |-> <<port, TRUE>>]
    ELSE [kind |-> "return", exc |-> "", value |-> <<port, FALSE>>]

\* ScannerV2.py, lines 174-210: get_server_info; data[0] != 0x1c,
\* data[33:].split(b';'), len(server_info) < 10, fields 0..8
get_server_info_V2(port, o) ==
    IF ~o.sock
    THEN [kind |-> "raise", exc |-> "UnboundLocalError", value |-> None]
    ELSE IF ~o.send \/ o.recv.kind # "data" \/ o.recv.data = <<>>
    THEN [kind |-> "return", exc |-> "", value |-> None]
    ELSE IF o.recv.data[1] # 28
    THEN [kind |-> "return", exc |-> "", value |-> None]
    ELSE LET fields == Split(SliceFrom(o.recv.data, 33), 59)
         IN IF Len(fields) < 10
            THEN [kind |-> "return", exc |-> "", value |-> None]
            ELSE [kind |-> "return", exc |-> "",
                  value |-> [kind |-> "info",
                             edition |-> safe_decode_V2(fields[1]),
                             motd |-> safe_decode_V2(fields[2]),
                             protocol |-> safe_decode_V2(fields[3]),
                             version |-> safe_decode_V2(fields[4]),
                             players |-> safe_decode_V2(fields[5]),
                             max_players |-> safe_decode_V2(fields[6]),
                             server_id |-> safe_decode_V2(fields[7]),
                             server_name |-> safe_decode_V2(fields[8]),
                             gamemode |-> safe_decode_V2(fields[9]),
                             port |-> port]]

\* ScannerV2.py, lines 124-146: scan_ports; the range, and one turn of the
\* as_completed loop
ports_to_scan_V2 == PORT_RANGE[1] .. ((PORT_RANGE[2] + 1) - 1)
scan_ports_turn_V2(ports, value) ==
    IF value[2] THEN Append(ports, value[1]) ELSE ports

\* ScannerV2.py, line 98: get_server_info(host, active_ports[0])
InfoPort_V2(ports) == ports[1]

\* scannerV1.py, lines 178-183: safe_decode
safe_decode_V1(byte_str) ==
    LET u == Utf8Decode(byte_str)
    IN IF u.ok THEN u.text ELSE Latin1Decode(byte_str)

\* scannerV1.py, lines 114-138: check_bedrock_port; sock is bound inside the try
\* whose finally closes it, the test is len(data) > 0 and data[0] == 0x1c
check_bedrock_port_V1(port, o) ==
    IF ~o.sock
    THEN [kind |-> "raise", exc |-> "UnboundLocalError", value |-> <<port, FALSE>>]
    ELSE IF o.send /\ o.recv.kind = "data" /\ Len(o.recv.data) > 0
            /\ o.recv.data[1] = 28
    THEN [kind |-> "return", exc |-> "", value |-> <<port, TRUE>>]
    ELSE [kind |-> "return", exc |-> "", value |-> <<port, FALSE>>]

\* scannerV1.py, lines 140-176: get_server_info; data[0] != 0x1c,
\* data[33:].split(b';'), len(server_info) < 10, fields 0..8
get_server_info_V1(port, o) ==
    IF ~o.sock
    THEN [kind |-> "raise", exc |-> "UnboundLocalError", value |-> None]
    ELSE IF ~o.send \/ o.recv.kind # "data" \/ o.recv.data = <<>>
    THEN [kind |-> "return", exc |-> "", value |-> None]
    ELSE IF o.recv.data[1] # 28
    THEN [kind |-> "return", exc |-> "", value |-> None]
    ELSE LET fields == Split(SliceFrom(o.recv.data, 33), 59)
         IN IF Len(fields) < 10
            THEN [kind |-> "return", exc |-> "", value |-> None]
            ELSE [kind |-> "return", exc |-> "",
                  value |-> [kind |-> "info",
                             edition |-> safe_decode_V1(fields[1]),
                             motd |-> safe_decode_V1(fields[2]),
                             protocol |-> safe_decode_V1(fields[3]),
                             version |-> safe_decode_V1(fields[4]),
                             players |-> safe_decode_V1(fields[5]),
                             max_players |-> safe_decode_V1(fields[6]),
                             server_id |-> safe_decode_V1(fields[7]),
                             server_name |-> safe_decode_V1(fields[8]),
                             gamemode |-> safe_decode_V1(fields[9]),
                             port |-> port]]

\* scannerV1.py, lines 90-112: scan_ports; the range, and one turn of the
\* as_completed loop
ports_to_scan_V1 == PORT_RANGE[1] .. ((PORT_RANGE[2] + 1) - 1)
scan_ports_turn_V1(ports, value) ==
    IF value[2] THEN Append(ports, value[1]) ELSE ports

\* scannerV1.py, line 71: get_server_info(host, active_ports[0])
InfoPort_V1(ports) == ports[1]

Variants == {"Scanner.py", "ScannerV2.py", "scannerV1.py"}

ProbeOf(v, port, o) ==
    IF v = "ScannerV2.py" THEN check_bedrock_port_V2(port, o)
    ELSE IF v = "scannerV1.py" THEN check_bedrock_port_V1(port, o)
    ELSE check_bedrock_port(port, o)
InfoOf(v, port, o) ==
    IF v = "ScannerV2.py" THEN get_server_info_V2(port, o)
    ELSE IF v = "scannerV1.py" THEN get_server_info_V1(port, o)
    ELSE get_server_info(port, o)
TurnOf(v, ports, value) ==
    IF v = "ScannerV2.py" THEN scan_ports_turn_V2(ports, value)
    ELSE IF v = "scannerV1.py" THEN scan_ports_turn_V1(ports, value)
    ELSE Collected(ports, value)
RangeOf(v) ==
    IF v = "ScannerV2.py" THEN ports_to_scan_V2
    ELSE IF v = "scannerV1.py" THEN ports_to_scan_V1
    ELSE ports_to_scan
InfoPortOf(v, ports) ==
    IF v = "ScannerV2.py" THEN InfoPort_V2(ports)
    ELSE IF v = "scannerV1.py" THEN InfoPort_V1(ports)
    ELSE InfoPort(ports)

\* The core of one variant: where it stands, the ports it scans, its
\* active_ports and its server_info.
CoreAtEntry(v) ==
    [at |-> "scan_ports", ports_to_scan |-> RangeOf(v), active_ports |-> <<>>,
     server_info |-> None]

\* the future of port p completes and the loop consumes it
CoreConsume(v, c, p, o) ==
    IF c.at # "scan_ports" \/ p \notin c.ports_to_scan THEN c
    ELSE LET f == ProbeOf(v, p, o)
         IN IF f.kind = "raise" THEN [c EXCEPT !.at = "raised"]
            ELSE [c EXCEPT !.active_ports = TurnOf(v, @, f.value)]

CoreReturn(v, c) ==
    IF c.at = "scan_ports" THEN [c EXCEPT !.at = "returned"] ELSE c

\* server_info = None; if active_ports: server_info = get_server_info(...)
CoreInfo(v, c, o) ==
    IF c.at # "returned" THEN c
    ELSE IF c.active_ports = <<>> THEN [c EXCEPT !.at = "reported"]
    ELSE LET r == InfoOf(v, InfoPortOf(v, c.active_ports), o)
         IN IF r.kind = "raise" THEN [c EXCEPT !.at = "raised"]
            ELSE [c EXCEPT !.at = "reported", !.server_info = r.value]

\* what the socket calls of one probe do, from socket() to recv
ProbeOutcomes ==
    {[sock |-> s.sock, send |-> s.send, recv |-> NoRecv] :
        s \in {t \in StartOutcomes : ~(t.sock /\ t.send)}}
    \cup {[sock |-> TRUE, send |-> TRUE, recv |-> r] : r \in RecvOutcomes}
InfoOutcomes ==
    {[sock |-> s.sock, send |-> s.send, recv |-> NoRecv] :
        s \in {t \in StartOutcomes : ~(t.sock /\ t.send)}}
    \cup {[sock |-> TRUE, send |-> TRUE, recv |-> r] : r \in InfoRecvOutcomes}

\* The three cores are given the same host, range and responders; io holds
\* what the probe of each port will meet.
InitVariants ==
    /\ host = "mc.example.com"
    /\ PORT_RANGE \in {r \in Ports \X Ports : r[1] <= r[2]}
    /\ pc = "variants"
    /\ now = 0
    /\ start_time = 0
    /\ scan_time = 0
    /\ probe = [p \in Ports |-> "none"]
    /\ io \in {f \in [Ports -> ProbeOutcomes] :
                \A p \in Ports :
                    (p < PORT_RANGE[1] \/ p > PORT_RANGE[2]) => f[p] = NoIO}
    /\ future = [p \in Ports |-> Pending]
    /\ completed = <<>>
    /\ collected = {}
    /\ active_ports = <<>>
    /\ info = NoInfoCall
    /\ server_info = None
    /\ result = None
    /\ dec_in = None
    /\ dec_out = None
    /\ net = AnyNet
    /\ sockets = {}
    /\ tally = NoTally
    /\ deadline = [p \in Ports |-> 0]
    /\ other = [v \in Variants |-> CoreAtEntry(v)]
    /\ rid = 1

\* the same probe completes next in all three
VariantsConsume(p) ==
    /\ pc = "variants"
    /\ p \in ports_to_scan \ collected
    /\ \E v \in Variants : other[v].at = "scan_ports"
    /\ completed' = Append(completed, p)
    /\ collected' = collected \cup {p}
    /\ other' = [v \in Variants |-> CoreConsume(v, other[v], p, io[p])]
    /\ UNCHANGED <<host, PORT_RANGE, pc, now, start_time, scan_time, probe, io,
                   future, active_ports, info, server_info, result, dec_in,
                   dec_out, net, sockets, tally, deadline, rid>>

\* every future was consumed: scan_ports returns
VariantsReturn ==
    /\ pc = "variants"
    /\ collected = ports_to_scan
    /\ \E v \in Variants : other[v].at = "scan_ports"
    /\ other' = [v \in Variants |-> CoreReturn(v, other[v])]
    /\ UNCHANGED <<host, PORT_RANGE, pc, now, start_time, scan_time, probe, io,
                   future, completed, collected, active_ports, info,
                   server_info, result, dec_in, dec_out, net, sockets, tally,
                   deadline, rid>>

\* the status call meets the same responder in all three
VariantsInfo ==
    /\ pc = "variants"
    /\ \E v \in Variants : other[v].at = "returned"
    /\ \E o \in InfoOutcomes :
        /\ info' = [info EXCEPT !.called = TRUE, !.o = o]
        /\ other' = [v \in Variants |-> CoreInfo(v, other[v], o)]
    /\ UNCHANGED <<host, PORT_RANGE, pc, now, start_time, scan_time, probe, io,
                   future, completed, collected, active_ports, server_info,
                   result, dec_in, dec_out, net, sockets, tally, deadline,
                   rid>>

NextVariants ==
    \/ \E p \in Ports : VariantsConsume(p)
    \/ VariantsReturn
    \/ VariantsInfo

SpecVariants == InitVariants /\ [][NextVariants]_vars

\* ------------------------------------------------------------ the claims
\* What happened on the wire, read off the recorded socket calls.
Sent(p) == io[p].sock /\ io[p].send
GotPong(p) ==
    /\ Sent(p)
    /\ io[p].recv.kind = "data"
    /\ io[p].recv.data # <<>>
    /\ Head(io[p].recv.data) = PONG_ID
Silent(p) == Sent(p) /\ io[p].recv.kind = "timeout"
\* the probe of p met a failure at one of its steps
ProbeFailed(p) == probe[p] = "done" /\ ~GotPong(p)
ScanPortsReturned == pc \in {"scanned", "info_wait", "info_done", "done"}
NoDuplicates(s) == \A i, j \in 1..Len(s) : i # j => s[i] # s[j]
IsAscending(s) == \A i, j \in 1..Len(s) : i < j => s[i] < s[j]
Elements(s) == {s[i] : i \in 1..Len(s)}
NoneClassifiedOpen ==
    \A p \in Ports : ~(future[p].kind = "return" /\ future[p].value[2])

\* C1: the list scan_ports builds and returns holds only ports of
\* [low, high], holds no port twice, and holds no port whose probe did not
\* receive a reply with first byte 0x1C.
C1_ActiveOnlyPongInRange ==
    /\ \A i \in 1..Len(active_ports) :
        /\ active_ports[i] >= Low
        /\ active_ports[i] <= High
        /\ GotPong(active_ports[i])
    /\ NoDuplicates(active_ports)

W_C1 ==
    /\ pc = "scanned"
    /\ active_ports # <<>>
    /\ \E p \in ports_to_scan : io[p].recv.kind = "data" /\ ~GotPong(p)
    /\ Low > PortBase

\* C2: if exactly one port P answers with a pong and every other port stays
\* silent, scan_ports returns exactly P, whatever the order of the probes.
C2_SingleResponder ==
    \A P \in ports_to_scan :
        (/\ ScanPortsReturned
         /\ GotPong(P)
         /\ \A q \in ports_to_scan \ {P} : Silent(q))
        => active_ports = <<P>>

W_C2 ==
    /\ pc = "scanned"
    /\ Low < High
    /\ GotPong(High)
    /\ \A q \in ports_to_scan \ {High} : Silent(q)

\* C3 (as claimed): every probe that met a failure returned (port, False),
\* and no failure of a probe left check_bedrock_port or scan_ports.
CE_C3_ProbeFailureIsClosed ==
    /\ \A p \in ports_to_scan :
        ProbeFailed(p) => future[p].kind = "return" /\ future[p].value = <<p, FALSE>>
    /\ pc # "unwinding"

\* C4 (as claimed): get_server_info never raises; every failure gives None.
CE_C4_InfoNeverRaises ==
    pc = "decoded" =>
        /\ dec_out.kind = "return"
        /\ dec_in.shape \in {"short", "failure"} => dec_out.value = None

\* C5: a pong reply whose payload splits into exactly 10 segments gives a
\* record whose nine fields are the first nine tokens sent and whose port is
\* the queried port; 9 or fewer segments give None; a record is built only
\* from 10 or more segments.
NumSegments(d) == Len(d.tokens) + (IF d.trailing THEN 1 ELSE 0)
ExpectedInfo(d) ==
    [kind |-> "info",
     edition |-> d.tokens[1],
     motd |-> d.tokens[2],
     protocol |-> d.tokens[3],
     version |-> d.tokens[4],
     players |-> d.tokens[5],
     max_players |-> d.tokens[6],
     server_id |-> d.tokens[7],
     server_name |-> d.tokens[8],
     gamemode |-> d.tokens[9],
     port |-> d.port]
C5_FieldRoundTrip ==
    (pc = "decoded" /\ dec_in.shape = "status" /\ dec_in.lead = PONG_ID) =>
        /\ dec_out.kind = "return"
        /\ NumSegments(dec_in) = MIN_FIELDS => dec_out.value = ExpectedInfo(dec_in)
        /\ NumSegments(dec_in) < MIN_FIELDS => dec_out.value = None
        /\ dec_out.value # None => NumSegments(dec_in) >= MIN_FIELDS

W_C5 ==
    /\ pc = "decoded"
    /\ dec_in.shape = "status"
    /\ dec_in.lead = PONG_ID
    /\ NumSegments(dec_in) = MIN_FIELDS
    /\ dec_in.trailing
    /\ dec_out.value # None
    /\ dec_out.value.server_name = <<233>>
    /\ dec_out.value.port = PortBase + 1

\* C6: while no port is classified open, active_ports is empty, server_info
\* is None and get_server_info has not been called; the result of such a
\* request shows no ports, no server info and an elapsed time >= 0.
C6_NothingFound ==
    NoneClassifiedOpen =>
        /\ active_ports = <<>>
        /\ server_info = None
        /\ ~info.called
        /\ scan_time >= 0
        /\ pc = "done" =>
            /\ result.active_ports = <<>>
            /\ result.server_info = None
            /\ result.scan_time >= 0

W_C6 ==
    /\ pc = "done"
    /\ NoneClassifiedOpen
    /\ Low < High
    /\ result.scan_time > 0
    /\ \E p \in ports_to_scan : io[p].recv.kind = "data"

\* C7 (as claimed): a request whose host resolved never ends in an error.
CE_C7_NeverError == pc # "error"

\* C8 (as claimed): the port list given to format_results is ascending.
CE_C8_Ascending == pc = "done" => IsAscending(result.active_ports)

\* C9 (as claimed): with two or more open ports, get_server_info is called
\* on the lowest open port.
CE_C9_LowestPort ==
    (info.called /\ Len(active_ports) >= 2) =>
        info.port = Min(Elements(active_ports))

\* C10 (as claimed): the clock is stopped after get_server_info has
\* returned, so the reported time covers the decoder's wait.
CE_C10_ClockCoversDecoder ==
    (pc = "done" /\ info.called) =>
        result.scan_time >= info.t_end - start_time

\* C10 (amended): the clock is stopped when scan_ports has returned, before
\* get_server_info is called: the reported time ends no later than the
\* decoder's start and the decoder's wait is not part of it.
C10_ClockStopsBeforeDecoder ==
    info.called =>
        /\ start_time + scan_time <= info.t_start
        /\ pc = "done" => result.scan_time = scan_time

W_C10 ==
    /\ pc = "done"
    /\ info.called
    /\ info.t_end > info.t_start
    /\ result.scan_time > 0
    /\ result.scan_time < info.t_end - start_time

\* C11: a request whose host does not resolve is rejected and never gets a
\* worker pool, a probe, a socket or a status call; a probe exists only for
\* a host that resolved, after the check.
C11_NoScanWithoutValidHost ==
    /\ host \notin Resolvable =>
        /\ pc \in {"received", "rejected"}
        /\ \A p \in Ports : probe[p] = "none" /\ io[p] = NoIO /\ future[p] = Pending
        /\ sockets = {}
        /\ tally = NoTally
        /\ ~info.called
        /\ result = None
    /\ (\E p \in Ports : probe[p] # "none") =>
        host \in Resolvable /\ pc \notin {"received", "accepted", "rejected"}

W_C11 == pc = "rejected" /\ host \notin Resolvable /\ Low < High

\* C12: at every moment at most MAX_WORKERS probes hold an open socket, also
\* when the range has more ports than the pool has workers.
C12_InFlightBounded ==
    /\ Cardinality(sockets) <= MAX_WORKERS
    /\ Cardinality({p \in Ports : probe[p] = "waiting"}) <= MAX_WORKERS

W_C12 ==
    /\ Cardinality(sockets) = MAX_WORKERS
    /\ \E p \in Low .. High : probe[p] = "queued"

\* C13: a probe that has ended, however it ended, holds no socket, the
\* status call holds a socket only while it waits in recvfrom, and once
\* scan_ports has returned, raised or been cancelled no probe runs and no
\* socket of the scan is open.
ScanPortsLeft ==
    pc \in {"scanned", "info_wait", "info_done", "done", "error", "cancelled"}
C13_SocketsReleased ==
    /\ \A p \in Ports : probe[p] # "waiting" => p \notin sockets
    /\ info.sock_open => pc = "info_wait"
    /\ ScanPortsLeft =>
        /\ sockets = {}
        /\ \A p \in Low .. High : probe[p] = "done"

W_C13 ==
    /\ pc = "cancelled"
    /\ \E p \in Low .. High : io[p].recv.kind = "timeout"
    /\ \E p \in Low .. High : io[p].sock /\ ~io[p].send

\* C14: no port is probed, answered or consumed twice, no port outside
\* [low, high] is probed, and when scan_ports returns every port of
\* [low, high] was probed once and its one result consumed once: high-low+1
\* results in all.
C14_EachPortOnce ==
    /\ \A p \in Ports :
        /\ tally.probed[p] <= 1
        /\ tally.yielded[p] <= tally.probed[p]
        /\ tally.consumed[p] <= tally.yielded[p]
        /\ (p < Low \/ p > High) => tally.probed[p] = 0
    /\ ScanPortsReturned =>
        /\ \A p \in Low .. High :
            /\ tally.probed[p] = 1
            /\ tally.yielded[p] = 1
            /\ tally.consumed[p] = 1
            /\ future[p].kind = "return"
            /\ future[p].value[1] = p
        /\ Cardinality({p \in Ports : tally.consumed[p] = 1}) = High - Low + 1

W_C14 ==
    /\ pc = "scanned"
    /\ High - Low + 1 > MAX_WORKERS
    /\ Cardinality({p \in Ports : tally.consumed[p] = 1}) = High - Low + 1

\* C19 (as claimed): every ended probe returned (port, True) exactly when a
\* non-empty datagram with first byte 0x1C arrived, and (port, False) after
\* any other reply, a timeout or any exception.
CE_C19_OpenIffPong ==
    \A p \in Low .. High :
        probe[p] = "done" =>
            /\ future[p].kind = "return"
            /\ future[p].value = <<p, GotPong(p)>>

\* C20: get_server_info is called at most once in a request, only with a
\* non-empty active_ports, and only after every probe has ended, every
\* result was consumed and the pool holds no socket.
C20_InfoAfterFanOut ==
    /\ tally.info_calls <= 1
    /\ info.called <=> tally.info_calls = 1
    /\ info.called =>
        /\ active_ports # <<>>
        /\ info.port \in Elements(active_ports)
        /\ \A p \in Low .. High : probe[p] = "done"
        /\ collected = Low .. High
        /\ sockets = {}
        /\ pc \in {"info_wait", "info_done", "done", "error"}

W_C20 ==
    /\ pc = "info_wait"
    /\ info.sock_open
    /\ Low < High
    /\ \E p \in Low .. High : io[p].recv.kind = "timeout"

\* C16: every byte string decodes: as UTF-8 when it is the UTF-8 encoding
\* of a text, otherwise byte by byte.  A status reply whose token is not
\* valid UTF-8 still gives a record, the field of that token is non-empty
\* and the other fields are the tokens sent.
RECURSIVE TextsUpTo(_)
TextsUpTo(n) ==
    IF n = 0 THEN {<<>>}
    ELSE LET W == TextsUpTo(n - 1)
         IN W \cup {Append(w, c) : w \in W, c \in {65, 233}}
\* the texts whose encodings are spelled with RawBytes
RefTexts == TextsUpTo(MaxTokenLen + 1)
IsEncoding(bs) == \E t \in RefTexts : Utf8Encode(t) = bs
RefDecode(bs) ==
    IF IsEncoding(bs) THEN CHOOSE t \in RefTexts : Utf8Encode(t) = bs ELSE bs
C16_DecodeTotal ==
    (pc = "decoded" /\ dec_in.shape = "raw") =>
        /\ dec_out.kind = "return"
        /\ dec_out.value =
            ExpectedInfo([dec_in EXCEPT
                            !.tokens = [i \in DOMAIN @ |-> RefDecode(@[i])]])
        /\ dec_out.value.server_name # <<>>

W_C16 ==
    /\ pc = "decoded"
    /\ dec_in.shape = "raw"
    /\ ~IsEncoding(dec_in.tokens[8])
    /\ dec_out.value # None
    /\ dec_out.value.server_name = dec_in.tokens[8]
    /\ dec_out.value.motd = <<98>>

\* C15: with range (19130, 19132) and only 19131 answering 0x1C, 32 header
\* bytes and the status line, the report has active_ports = [19131],
\* server_name "Survival World", players "3", max_players "10"; the nine
\* fields are segments 0..8 after the 33 header bytes, whatever the header
\* bytes are and whatever follows the 10th segment.
C15_ScenarioReport ==
    pc = "done" =>
        /\ result.active_ports = <<ScenarioPort>>
        /\ result.server_info # None
        /\ result.server_info.port = ScenarioPort
        /\ result.server_info.server_name = ScenarioFields[8]
        /\ result.server_info.players = <<51>>
        /\ result.server_info.max_players = <<49, 48>>
        /\ result.server_info =
            ExpectedInfo([tokens |-> ScenarioFields, port |-> ScenarioPort])

W_C15 ==
    /\ pc = "done"
    /\ PORT_RANGE = <<PortBase, PortBase + 2>>
    /\ net.data = ScenarioReply(0, Len(ScenarioFields), TRUE)
    /\ result.server_info.server_name = ScenarioFields[8]

\* C17: when every probe of the n ports times out, no probe starts later
\* than ceil(n / MAX_WORKERS) - 1 timeout periods after the scan began, and
\* scan_ports returns within ceil(n / MAX_WORKERS) timeout periods.
CeilDiv(a, b) == (a + b - 1) \div b
Waves == CeilDiv(High - Low + 1, MAX_WORKERS)
StartedAt(p) == deadline[p] - SCAN_TIMEOUT
C17_WavesOfTimeouts ==
    /\ \A p \in Low .. High :
        /\ probe[p] \in {"waiting", "done"} =>
            StartedAt(p) - start_time <= (Waves - 1) * SCAN_TIMEOUT
        /\ probe[p] = "queued" => now - start_time <= (Waves - 1) * SCAN_TIMEOUT
    /\ pc = "scanning" => now - start_time <= Waves * SCAN_TIMEOUT
    /\ ScanPortsReturned => scan_time <= Waves * SCAN_TIMEOUT

W_C17 ==
    /\ pc = "scanned"
    /\ High - Low + 1 > MAX_WORKERS
    /\ \A p \in Low .. High : io[p].recv.kind = "timeout"
    /\ scan_time = Waves * SCAN_TIMEOUT
    /\ scan_time < (High - Low + 1) * SCAN_TIMEOUT
    /\ \E p \in Low .. High : StartedAt(p) - start_time = (Waves - 1) * SCAN_TIMEOUT

\* C18: of two requests that run at once, each one's active_ports holds
\* only ports that its own probes against its own host classified open,
\* each keeps its sockets within its own pool, and each one's report is the
\* report it gives when it runs alone.
SoloResult(h) == format_results(h, <<net.port[h]>>, None, 0)
Isolated(r) ==
    /\ \A p \in Elements(r.active_ports) :
        /\ p = net.port[r.host]
        /\ r.future[p] = check_bedrock_port(p, r.io[p])
        /\ r.io[p].recv = PongReply
    /\ NoDuplicates(r.active_ports)
    /\ r.sockets \subseteq {p \in Ports : r.probe[p] = "waiting"}
    /\ Cardinality(r.sockets) <= MAX_WORKERS
    /\ r.tally.info_calls <= 1
    /\ r.pc = "done" => r.result = SoloResult(r.host)
C18_RequestsIsolated == Isolated(Locals) /\ Isolated(other)

W_C18 ==
    /\ pc = "scanning"
    /\ other.pc = "scanning"
    /\ host # other.host
    /\ active_ports # <<>>
    /\ other.active_ports # <<>>
    /\ active_ports # other.active_ports
    /\ sockets # {}
    /\ other.sockets # {}

\* C21 (as claimed): every started scan ends with its result composed,
\* whatever the range and whatever the responders do.
CE_C21_ScanComposes == (pc = "scanning") ~> (pc = "done")

\* C22: a composed result carries server info only with a non-empty
\* active_ports, and then the info's port is active_ports[0]; when the
\* status call got no usable reply the result has a non-empty active_ports
\* and no server info.
InfoProbeFailed ==
    /\ info.called
    /\ \/ ~info.o.send
       \/ info.o.recv.kind # "data"
       \/ info.o.recv.data = <<>>
       \/ info.o.recv.data # <<>> /\ info.o.recv.data[1] # PONG_ID
C22_InfoOfFirstOpenPort ==
    pc = "done" =>
        /\ result.server_info # None =>
            /\ result.active_ports # <<>>
            /\ result.server_info.port = result.active_ports[1]
            /\ result.server_info.port \in Elements(result.active_ports)
        /\ result.active_ports = <<>> => result.server_info = None
        /\ InfoProbeFailed =>
            /\ result.active_ports # <<>>
            /\ result.server_info = None

W_C22 ==
    /\ pc = "done"
    /\ result.server_info # None
    /\ Len(result.active_ports) >= 2
    /\ result.active_ports[1] > result.active_ports[2]
    /\ result.server_info.port = result.active_ports[1]

\* C23: given the same host, range, responders and order of completions,
\* the cores of Scanner.py, ScannerV2.py and scannerV1.py are in the same
\* state after every step: same ports to scan, same active_ports, same
\* server_info, same exception.
C23_VariantsAgree ==
    pc = "variants" =>
        \A v \in Variants : other[v] = other["Scanner.py"]

W_C23 ==
    /\ pc = "variants"
    /\ other["ScannerV2.py"].at = "reported"
    /\ other["scannerV1.py"].at = "reported"
    /\ Len(other["ScannerV2.py"].active_ports) >= 2
    /\ other["ScannerV2.py"].active_ports[1] > other["ScannerV2.py"].active_ports[2]
    /\ other["scannerV1.py"].server_info # None
    /\ \E p \in Low .. High : io[p].recv.kind = "data" /\ ~IsPong(io[p].recv.data)

====
